---- MODULE Spec2Model ----
(***************************************************************************)
(* Model of go-billion-rows (src/main.go): MustRun's plan -> scan -> merge *)
(* pipeline and the pure functions it is built from.                       *)
(*                                                                         *)
(* Bytes are their numeric codes and a Go string is a sequence of bytes.   *)
(* Go offsets are 0-based: data[i] of the source is data[i+1] here and     *)
(* data[a:b] is Slice(data, a, b).  A temperature float64(v)*0.01 is kept  *)
(* as its exact int32 v (hundredths); float rounding is not modelled.      *)
(***************************************************************************)
EXTENDS Integers, Sequences, FiniteSets

VARIABLES
    fileState,   \* what os.Stat / os.Open find at the -f path
    data,        \* the mapped file content
    numWorkers,  \* *fWorkers
    pc,          \* MustRun's position
    chunks,      \* calculateChunks' result
    spawned,     \* number of errg.Go calls made so far
    wstate,      \* per task: "idle", "running", "done", "failed"
    wpos,        \* per task: processChunk's i
    lstats,      \* per task: processChunk's stats map
    results,     \* the results slice: per slot [set, m]
    writes,      \* history: <<task, object>> for every slot / map written
    errgErr,     \* errgroup's first error
    mergeIdx,    \* number of workerResults folded so far
    finalStats,  \* finalStats map
    stdout,      \* what was written to stdout
    stderr,      \* what was written to stderr
    ret,         \* MustRun's return value
    arg,         \* argument of the pure function under test
    out          \* its result

vars == <<fileState, data, numWorkers, pc, chunks, spawned, wstate, wpos, lstats,
          results, writes, errgErr, mergeIdx, finalStats, stdout, stderr, ret,
          arg, out>>

---------------------------------------------------------------------------
(* Bounds of the model *)
MaxLines == 3
MaxWorkers == 3
MaxPlanWorkers == 5
MaxFileLen == 10
MaxFieldLen == 7
MaxScanLen == 16

(* Byte codes the source compares against *)
SEMI == 59
NL == 10
DOT == 46
MINUS == 45
ZERO == 48
STRIDE == 8

---------------------------------------------------------------------------
(* Go built-ins *)
Slice(s, a, b) == SubSeq(s, a + 1, b)

MinOf(a, b) == IF a < b THEN a ELSE b

MaxOf(a, b) == IF a > b THEN a ELSE b

(* strings.IndexByte(s[from:], c) *)
IndexByte(s, from, c) ==
    LET hits == {k \in (from + 1)..Len(s) : s[k] = c}
    IN  IF hits = {} THEN -1
        ELSE (CHOOSE k \in hits : \A j \in hits : k <= j) - (from + 1)

EmptyMap == <<>>

NilErr == [kind |-> "nil", text |-> <<>>]

---------------------------------------------------------------------------
(* readNameUntilSemicolon *)

(* the eight unrolled tests of one stride: index of the ';' or -1 *)
FirstIn8_Skip7(s) ==
    IF s[1] = SEMI THEN 0
    ELSE IF s[2] = SEMI THEN 1
    ELSE IF s[3] = SEMI THEN 2
    ELSE IF s[4] = SEMI THEN 3
    ELSE IF s[5] = SEMI THEN 4
    ELSE IF s[6] = SEMI THEN 5
    ELSE IF s[7] = SEMI THEN 6
    ELSE -1

FirstIn8(s) ==
    IF s[1] = SEMI THEN 0
    ELSE IF s[2] = SEMI THEN 1
    ELSE IF s[3] = SEMI THEN 2
    ELSE IF s[4] = SEMI THEN 3
    ELSE IF s[5] = SEMI THEN 4
    ELSE IF s[6] = SEMI THEN 5
    ELSE IF s[7] = SEMI THEN 6
    ELSE IF s[8] = SEMI THEN 7
    ELSE -1

(* the byte-by-byte tail loop: offset of the ';' or -1 *)
RECURSIVE TailScan(_, _, _)
TailScan(s, i, offset) ==
    IF i >= Len(s) THEN -1
    ELSE IF s[i + 1] = SEMI THEN offset + i
    ELSE TailScan(s, i + 1, offset)

(* the stride loop followed by the tail: offset of the ';' or -1 *)
RECURSIVE StrideScan(_, _)
StrideScan(s, offset) ==
    IF Len(s) > STRIDE - 1
    THEN LET k == FirstIn8(s)
         IN  IF k # -1 THEN offset + k
             ELSE StrideScan(Slice(s, STRIDE, Len(s)), offset + STRIDE)
    ELSE TailScan(s, 0, offset)

readNameUntilSemicolon(input) ==
    LET offset == StrideScan(input, 0)
    IN  IF offset = -1 THEN input ELSE Slice(input, 0, offset)

---------------------------------------------------------------------------
(* parseTemp *)

(* b - '0' in uint8 arithmetic *)
Digit(c) == (c + 256 - ZERO) % 256

Signed(neg, v) == IF neg THEN -v ELSE v

ParseFail == [ok |-> FALSE, v |-> 0]

parseTemp(b) ==
    LET n == Len(b)
        B(k) == b[k + 1]
    IN  IF n < 4 THEN ParseFail
        ELSE
        LET neg == B(0) = MINUS
            i == IF neg THEN 1 ELSE 0
        IN  IF neg /\ n - i < 4 THEN ParseFail
            ELSE IF i + 3 < n /\ B(i + 1) = DOT THEN
                LET d0 == Digit(B(i))
                    d1 == Digit(B(i + 2))
                    d2 == Digit(B(i + 3))
                IN  IF d0 > 9 \/ d1 > 9 \/ d2 > 9 THEN ParseFail
                    ELSE [ok |-> TRUE, v |-> Signed(neg, d0 * 100 + (d1 * 10 + d2))]
            ELSE IF i + 4 < n /\ B(i + 2) = DOT THEN
                LET d0 == Digit(B(i))
                    d1 == Digit(B(i + 1))
                    d2 == Digit(B(i + 3))
                    d3 == Digit(B(i + 4))
                IN  IF d0 > 9 \/ d1 > 9 \/ d2 > 9 \/ d3 > 9 THEN ParseFail
                    ELSE [ok |-> TRUE,
                          v |-> Signed(neg, (d0 * 10 + d1) * 100 + (d2 * 10 + d3))]
            ELSE IF i + 5 < n /\ B(i + 3) = DOT THEN
                LET d0 == Digit(B(i))
                    d1 == Digit(B(i + 1))
                    d2 == Digit(B(i + 2))
                    d3 == Digit(B(i + 4))
                    d4 == Digit(B(i + 5))
                IN  IF d0 > 9 \/ d1 > 9 \/ d2 > 9 \/ d3 > 9 \/ d4 > 9 THEN ParseFail
                    ELSE [ok |-> TRUE,
                          v |-> Signed(neg, (d0 * 100 + d1 * 10 + d2) * 100
                                            + (d3 * 10 + d4))]
            ELSE ParseFail

---------------------------------------------------------------------------
(* calculateChunks *)

(* the end of a chunk proposed at `end`: clamped, or moved past the next '\n' *)
AlignEnd_NoScan(d, end, fileSize) ==
    IF end >= fileSize THEN fileSize ELSE end

AlignEnd(d, end, fileSize) ==
    IF end >= fileSize THEN fileSize
    ELSE LET newlineIndex == IndexByte(d, end, NL)
         IN  IF newlineIndex # -1 THEN end + newlineIndex + 1 ELSE fileSize

RECURSIVE ChunkLoop(_, _, _, _, _, _)
ChunkLoop(d, fileSize, n, chunkSize, currentPos, acc) ==
    IF Len(acc) = n THEN acc
    ELSE LET start == currentPos
             end == AlignEnd(d, start + chunkSize, fileSize)
         IN  ChunkLoop(d, fileSize, n, chunkSize, end, Append(acc, <<start, end>>))

calculateChunks(d, fileSize, n) ==
    LET chunkSize == fileSize \div n
        cs == ChunkLoop(d, fileSize, n, chunkSize, 0, <<>>)
    IN  [cs EXCEPT ![n] = <<cs[n][1], fileSize>>]

---------------------------------------------------------------------------
(* processChunk *)

(* the loop `for i < end && data[i] != '\n' { i++ }` *)
RECURSIVE ValueEnd(_, _, _)
ValueEnd(d, i, end) ==
    IF i < end /\ d[i + 1] # NL THEN ValueEnd(d, i + 1, end) ELSE i

(* `if len(name) == len(remaining)` *)
NoDelimiter(name, remaining) == Len(name) = Len(remaining)

(* the map update that ends one loop iteration *)
UpdateStats_NoCount(stats, name, temp) ==
    IF name \in DOMAIN stats
    THEN [stats EXCEPT ![name] = [Min |-> MinOf(@.Min, temp),
                                  Max |-> MaxOf(@.Max, temp),
                                  Sum |-> @.Sum + temp,
                                  Count |-> @.Count]]
    ELSE [k \in DOMAIN stats \cup {name} |->
            IF k = name THEN [Min |-> temp, Max |-> temp, Sum |-> temp, Count |-> 1]
            ELSE stats[k]]

UpdateStats(stats, name, temp) ==
    IF name \in DOMAIN stats
    THEN [stats EXCEPT ![name] = [Min |-> MinOf(@.Min, temp),
                                  Max |-> MaxOf(@.Max, temp),
                                  Sum |-> @.Sum + temp,
                                  Count |-> @.Count + 1]]
    ELSE [k \in DOMAIN stats \cup {name} |->
            IF k = name THEN [Min |-> temp, Max |-> temp, Sum |-> temp, Count |-> 1]
            ELSE stats[k]]

(* `break`: the loop is left with i and stats as they are *)
BreakOutcome_Drop(i, stats) ==
    [kind |-> "break", i |-> i, stats |-> EmptyMap, err |-> NilErr]

BreakOutcome(i, stats) ==
    [kind |-> "break", i |-> i, stats |-> stats, err |-> NilErr]

(* one iteration of the loop body, entered with i < end *)
ScanStep(d, i, end, stats) ==
    LET remaining == Slice(d, i, end)
        name == readNameUntilSemicolon(remaining)
    IN  IF NoDelimiter(name, remaining) THEN BreakOutcome(i, stats)
        ELSE
        LET start == i + Len(name) + 1
            vend == ValueEnd(d, start, end)
            field == Slice(d, start, vend)
            p == parseTemp(field)
            next == IF vend < end /\ d[vend + 1] = NL THEN vend + 1 ELSE vend
        IN  IF ~p.ok
            THEN [kind |-> "fail", i |-> vend, stats |-> EmptyMap,
                  err |-> [kind |-> "malformed", text |-> field]]
            ELSE [kind |-> "line", i |-> next,
                  stats |-> UpdateStats(stats, name, p.v), err |-> NilErr]

(* processChunk as a function: what it returns for a chunk *)
RECURSIVE ScanLoop(_, _, _, _)
ScanLoop(d, i, end, stats) ==
    IF i >= end THEN [stats |-> stats, err |-> NilErr]
    ELSE LET st == ScanStep(d, i, end, stats)
         IN  IF st.kind = "line" THEN ScanLoop(d, st.i, end, st.stats)
             ELSE [stats |-> st.stats, err |-> st.err]

processChunk(d, chunk) == ScanLoop(d, chunk[1], chunk[2], EmptyMap)

---------------------------------------------------------------------------
(* the merge loop of MustRun *)

(* the body of the inner loop for one (station, stats) pair.  finalStats holds *)
(* StationStats values, so `existing` is a copy: the four assignments change   *)
(* the copy and finalStats[station] is never stored back.                      *)
MergeEntry(final, station, stats) ==
    IF station \in DOMAIN final
    THEN LET existing == [Min |-> MinOf(final[station].Min, stats.Min),
                          Max |-> MaxOf(final[station].Max, stats.Max),
                          Sum |-> final[station].Sum + stats.Sum,
                          Count |-> final[station].Count + stats.Count]
         IN  final
    ELSE [k \in DOMAIN final \cup {station} |->
            IF k = station THEN stats ELSE final[k]]

(* the inner loop over one workerResult; its keys are distinct, so the order *)
(* Go's map iteration picks does not change the result                        *)
RECURSIVE MergeMap(_, _, _)
MergeMap(final, workerResult, keys) ==
    IF keys = {} THEN final
    ELSE LET station == CHOOSE k \in keys : TRUE
         IN  MergeMap(MergeEntry(final, station, workerResult[station]),
                      workerResult, keys \ {station})

---------------------------------------------------------------------------
(* printResults *)

(* byte-wise string order of sort.Strings *)
RECURSIVE StrLess(_, _)
StrLess(a, b) ==
    IF b = <<>> THEN FALSE
    ELSE IF a = <<>> THEN TRUE
    ELSE IF a[1] # b[1] THEN a[1] < b[1]
    ELSE StrLess(Tail(a), Tail(b))

RECURSIVE SortStrings(_)
SortStrings(names) ==
    IF names = {} THEN <<>>
    ELSE LET first == CHOOSE n \in names : \A m \in names \ {n} : StrLess(n, m)
         IN  <<first>> \o SortStrings(names \ {first})

(* the entries written between "{" and "}": name, Min, avg as (Sum, Count), Max *)
printResults(stats) ==
    LET stationNames == SortStrings(DOMAIN stats)
    IN  [i \in 1..Len(stationNames) |->
            LET s == stats[stationNames[i]]
            IN  <<stationNames[i], s.Min, s.Sum, s.Count, s.Max>>]

---------------------------------------------------------------------------
(* Inputs *)

(* the lines files are built from: "a;1.00" "a;-2.50" "b;20.00" "b;NaN" *)
(* "a;1.234" and "ab" (a line without delimiter)                        *)
LineSet ==
    { <<97, 59, 49, 46, 48, 48>>,
      <<97, 59, 45, 50, 46, 53, 48>>,
      <<98, 59, 50, 48, 46, 48, 48>>,
      <<98, 59, 78, 97, 78>>,
      <<97, 59, 49, 46, 50, 51, 52>>,
      <<97, 98>> }

RECURSIVE JoinLines(_, _)
JoinLines(ls, lastNL) ==
    IF ls = <<>> THEN <<>>
    ELSE IF Len(ls) = 1 THEN (IF lastNL THEN ls[1] \o <<NL>> ELSE ls[1])
    ELSE ls[1] \o <<NL>> \o JoinLines(Tail(ls), lastNL)

(* files of up to MaxLines lines, the last one with or without terminator *)
Files ==
    { JoinLines(ls, nl) :
        ls \in UNION { [1..n -> LineSet] : n \in 0..MaxLines }, nl \in BOOLEAN }

BytesUpTo(alphabet, n) == UNION { [1..k -> alphabet] : k \in 0..n }

(* 'x' and '\n' *)
PlanAlphabet == {120, NL}

(* '-' '.' '0' '9' 'N' *)
FieldAlphabet == {MINUS, DOT, ZERO, 57, 78}

(* 'a' and ';' *)
ScanAlphabet == {97, SEMI}

FileStates == {"present", "missing", "unreadable"}

Tasks == 1..numWorkers

---------------------------------------------------------------------------
(* MustRun *)

InitRun ==
    /\ chunks = <<>>
    /\ spawned = 0
    /\ wstate = [w \in Tasks |-> "idle"]
    /\ wpos = [w \in Tasks |-> 0]
    /\ lstats = [w \in Tasks |-> EmptyMap]
    /\ results = <<>>
    /\ writes = {}
    /\ errgErr = NilErr
    /\ mergeIdx = 0
    /\ finalStats = EmptyMap
    /\ stdout = <<>>
    /\ stderr = <<>>
    /\ ret = NilErr

NoOut == [done |-> FALSE, ok |-> FALSE, v |-> 0, name |-> <<>>]

Init ==
    /\ fileState \in FileStates
    /\ data \in Files
    /\ fileState # "present" => data = <<>>
    /\ numWorkers \in 1..MaxWorkers
    /\ pc = "banner"
    /\ InitRun
    /\ arg = <<>>
    /\ out = NoOut

(* lines 74-75: the two banner lines go to stderr *)
Banner ==
    /\ pc = "banner"
    /\ stderr' = stderr \o <<"banner", "workers">>
    /\ pc' = "stat"
    /\ UNCHANGED <<fileState, data, numWorkers, chunks, spawned, wstate, wpos, lstats,
                   results, writes, errgErr, mergeIdx, finalStats, stdout, ret, arg, out>>

(* errors.Is(err, os.ErrNotExist) for os.Stat's error *)
StatNotExist_Never == FALSE

StatNotExist == fileState = "missing"

Return(err) ==
    /\ ret' = err
    /\ pc' = "done"

StatFail ==
    /\ pc = "stat"
    /\ StatNotExist
    /\ Return([kind |-> "notexist", text |-> <<>>])
    /\ UNCHANGED <<fileState, data, numWorkers, chunks, spawned, wstate, wpos, lstats,
                   results, writes, errgErr, mergeIdx, finalStats, stdout, stderr, arg, out>>

StatOk ==
    /\ pc = "stat"
    /\ ~StatNotExist
    /\ pc' = "open"
    /\ UNCHANGED <<fileState, data, numWorkers, chunks, spawned, wstate, wpos, lstats,
                   results, writes, errgErr, mergeIdx, finalStats, stdout, stderr, ret,
                   arg, out>>

OpenFail ==
    /\ pc = "open"
    /\ fileState # "present"
    /\ Return([kind |-> "open", text |-> <<>>])
    /\ UNCHANGED <<fileState, data, numWorkers, chunks, spawned, wstate, wpos, lstats,
                   results, writes, errgErr, mergeIdx, finalStats, stdout, stderr, arg, out>>

OpenOk ==
    /\ pc = "open"
    /\ fileState = "present"
    /\ pc' = "mmap"
    /\ UNCHANGED <<fileState, data, numWorkers, chunks, spawned, wstate, wpos, lstats,
                   results, writes, errgErr, mergeIdx, finalStats, stdout, stderr, ret,
                   arg, out>>

(* syscall.Mmap refuses a length of 0 *)
MmapFail ==
    /\ pc = "mmap"
    /\ Len(data) = 0
    /\ Return([kind |-> "mmap", text |-> <<>>])
    /\ UNCHANGED <<fileState, data, numWorkers, chunks, spawned, wstate, wpos, lstats,
                   results, writes, errgErr, mergeIdx, finalStats, stdout, stderr, arg, out>>

MmapOk ==
    /\ pc = "mmap"
    /\ Len(data) > 0
    /\ pc' = "plan"
    /\ UNCHANGED <<fileState, data, numWorkers, chunks, spawned, wstate, wpos, lstats,
                   results, writes, errgErr, mergeIdx, finalStats, stdout, stderr, ret,
                   arg, out>>

(* lines 107-108 *)
PlanChunks ==
    /\ pc = "plan"
    /\ chunks' = calculateChunks(data, Len(data), numWorkers)
    /\ results' = [i \in 1..numWorkers |-> [set |-> FALSE, m |-> EmptyMap]]
    /\ pc' = "spawn"
    /\ UNCHANGED <<fileState, data, numWorkers, spawned, wstate, wpos, lstats,
                   writes, errgErr, mergeIdx, finalStats, stdout, stderr, ret, arg, out>>

(* one errg.Go call: task i starts processChunk(data, chunks[i]) *)
Spawn ==
    /\ pc = "spawn"
    /\ spawned < numWorkers
    /\ LET i == spawned + 1
       IN  /\ wstate' = [wstate EXCEPT ![i] = "running"]
           /\ wpos' = [wpos EXCEPT ![i] = chunks[i][1]]
           /\ lstats' = [lstats EXCEPT ![i] = EmptyMap]
    /\ spawned' = spawned + 1
    /\ UNCHANGED <<fileState, data, numWorkers, pc, chunks, results, writes, errgErr,
                   mergeIdx, finalStats, stdout, stderr, ret, arg, out>>

(* the loop is over: MustRun reaches errg.Wait *)
SpawnDone ==
    /\ pc = "spawn"
    /\ spawned = numWorkers
    /\ pc' = "wait"
    /\ UNCHANGED <<fileState, data, numWorkers, chunks, spawned, wstate, wpos, lstats,
                   results, writes, errgErr, mergeIdx, finalStats, stdout, stderr, ret,
                   arg, out>>

(* the slot `results[i]` task w's closure assigns *)
SlotOf_First(w) == 1

SlotOf(w) == w

(* `results[i], err = processChunk(...)`; errgroup keeps the first error *)
TaskReturn(w, m, err, state) ==
    /\ results' = [results EXCEPT ![SlotOf(w)] = [set |-> TRUE, m |-> m]]
    /\ writes' = writes \cup {<<w, <<"slot", SlotOf(w)>>>>}
    /\ errgErr' = IF err # NilErr /\ errgErr = NilErr THEN err ELSE errgErr
    /\ wstate' = [wstate EXCEPT ![w] = state]

Step(w) == ScanStep(data, wpos[w], chunks[w][2], lstats[w])

ScanLine(w) ==
    /\ wstate[w] = "running"
    /\ wpos[w] < chunks[w][2]
    /\ Step(w).kind = "line"
    /\ wpos' = [wpos EXCEPT ![w] = Step(w).i]
    /\ lstats' = [lstats EXCEPT ![w] = Step(w).stats]
    /\ writes' = writes \cup {<<w, <<"stats", w>>>>}
    /\ UNCHANGED <<fileState, data, numWorkers, pc, chunks, spawned, wstate, results,
                   errgErr, mergeIdx, finalStats, stdout, stderr, ret, arg, out>>

ScanBreak(w) ==
    /\ wstate[w] = "running"
    /\ wpos[w] < chunks[w][2]
    /\ Step(w).kind = "break"
    /\ TaskReturn(w, Step(w).stats, NilErr, "done")
    /\ lstats' = [lstats EXCEPT ![w] = Step(w).stats]
    /\ UNCHANGED <<fileState, data, numWorkers, pc, chunks, spawned, wpos,
                   mergeIdx, finalStats, stdout, stderr, ret, arg, out>>

ScanFail(w) ==
    /\ wstate[w] = "running"
    /\ wpos[w] < chunks[w][2]
    /\ Step(w).kind = "fail"
    /\ TaskReturn(w, EmptyMap, Step(w).err, "failed")
    /\ wpos' = [wpos EXCEPT ![w] = Step(w).i]
    /\ UNCHANGED <<fileState, data, numWorkers, pc, chunks, spawned, lstats,
                   mergeIdx, finalStats, stdout, stderr, ret, arg, out>>

ScanReturn(w) ==
    /\ wstate[w] = "running"
    /\ wpos[w] >= chunks[w][2]
    /\ TaskReturn(w, lstats[w], NilErr, "done")
    /\ UNCHANGED <<fileState, data, numWorkers, pc, chunks, spawned, wpos, lstats,
                   mergeIdx, finalStats, stdout, stderr, ret, arg, out>>

(* errg.Wait returns once every task has returned *)
Joined == \A w \in Tasks : wstate[w] \in {"done", "failed"}

WaitErr ==
    /\ pc = "wait"
    /\ Joined
    /\ errgErr # NilErr
    /\ Return(errgErr)
    /\ UNCHANGED <<fileState, data, numWorkers, chunks, spawned, wstate, wpos, lstats,
                   results, writes, errgErr, mergeIdx, finalStats, stdout, stderr, arg, out>>

WaitOk ==
    /\ pc = "wait"
    /\ Joined
    /\ errgErr = NilErr
    /\ finalStats' = EmptyMap
    /\ pc' = "merge"
    /\ UNCHANGED <<fileState, data, numWorkers, chunks, spawned, wstate, wpos, lstats,
                   results, writes, errgErr, mergeIdx, stdout, stderr, ret, arg, out>>

(* one iteration of `for _, workerResult := range results` *)
MergeWorker ==
    /\ pc = "merge"
    /\ mergeIdx < numWorkers
    /\ LET workerResult == results[mergeIdx + 1].m
       IN  finalStats' = MergeMap(finalStats, workerResult, DOMAIN workerResult)
    /\ mergeIdx' = mergeIdx + 1
    /\ UNCHANGED <<fileState, data, numWorkers, pc, chunks, spawned, wstate, wpos, lstats,
                   results, writes, errgErr, stdout, stderr, ret, arg, out>>

(* lines 137-139 *)
PrintAndReturn ==
    /\ pc = "merge"
    /\ mergeIdx = numWorkers
    /\ stdout' = stdout \o <<printResults(finalStats)>>
    /\ stderr' = stderr \o <<"RESULTS">>
    /\ Return(NilErr)
    /\ UNCHANGED <<fileState, data, numWorkers, chunks, spawned, wstate, wpos, lstats,
                   results, writes, errgErr, mergeIdx, finalStats, arg, out>>

Next ==
    \/ Banner
    \/ StatFail
    \/ StatOk
    \/ OpenFail
    \/ OpenOk
    \/ MmapFail
    \/ MmapOk
    \/ PlanChunks
    \/ Spawn
    \/ SpawnDone
    \/ \E w \in Tasks : ScanLine(w)
    \/ \E w \in Tasks : ScanBreak(w)
    \/ \E w \in Tasks : ScanFail(w)
    \/ \E w \in Tasks : ScanReturn(w)
    \/ WaitErr
    \/ WaitOk
    \/ MergeWorker
    \/ PrintAndReturn

Spec == Init /\ [][Next]_vars

---------------------------------------------------------------------------
(* MustRun's plan -> scan -> merge as a function of the file and *fWorkers *)

RECURSIVE MergeAll(_, _, _)
MergeAll(rs, i, final) ==
    IF i > Len(rs) THEN final
    ELSE MergeAll(rs, i + 1, MergeMap(final, rs[i].stats, DOMAIN rs[i].stats))

FinalOf(d, n) ==
    LET cs == calculateChunks(d, Len(d), n)
        rs == [i \in 1..n |-> processChunk(d, cs[i])]
    IN  IF \E i \in 1..n : rs[i].err # NilErr
        THEN [failed |-> TRUE, stats |-> EmptyMap]
        ELSE [failed |-> FALSE, stats |-> MergeAll(rs, 1, EmptyMap)]

---------------------------------------------------------------------------
(* calculateChunks on arbitrary file contents *)

InitChunks ==
    /\ fileState = "present"
    /\ data \in BytesUpTo(PlanAlphabet, MaxFileLen)
    /\ numWorkers \in 1..MaxPlanWorkers
    /\ pc = "plan"
    /\ InitRun
    /\ arg = <<>>
    /\ out = NoOut

NextChunks == PlanChunks

SpecChunks == InitChunks /\ [][NextChunks]_vars

(* parseTemp on arbitrary value fields *)

InitPure ==
    /\ fileState = "present"
    /\ data = <<>>
    /\ numWorkers = 1
    /\ pc = "apply"
    /\ InitRun
    /\ out = NoOut

InitParse ==
    /\ arg \in BytesUpTo(FieldAlphabet, MaxFieldLen)
    /\ InitPure

ApplyParseTemp ==
    /\ pc = "apply"
    /\ LET p == parseTemp(arg)
       IN  out' = [out EXCEPT !.done = TRUE, !.ok = p.ok, !.v = p.v]
    /\ pc' = "done"
    /\ UNCHANGED <<fileState, data, numWorkers, chunks, spawned, wstate, wpos, lstats,
                   results, writes, errgErr, mergeIdx, finalStats, stdout, stderr, ret,
                   arg>>

NextParse == ApplyParseTemp

SpecParse == InitParse /\ [][NextParse]_vars

(* readNameUntilSemicolon on arbitrary inputs *)

InitScan ==
    /\ arg \in BytesUpTo(ScanAlphabet, MaxScanLen)
    /\ InitPure

ApplyReadName ==
    /\ pc = "apply"
    /\ out' = [out EXCEPT !.done = TRUE, !.name = readNameUntilSemicolon(arg)]
    /\ pc' = "done"
    /\ UNCHANGED <<fileState, data, numWorkers, chunks, spawned, wstate, wpos, lstats,
                   results, writes, errgErr, mergeIdx, finalStats, stdout, stderr, ret,
                   arg>>

NextScan == ApplyReadName

SpecScan == InitScan /\ [][NextScan]_vars

---------------------------------------------------------------------------
(* Reference definitions the properties are stated with: the input grammar *)
(* `<key>;<value>\n` and the statistics of a list of lines                 *)

IsDigit(c) == c \in 48..57

HasByte(s, c) == \E k \in 1..Len(s) : s[k] = c

(* optional '-', 1 to 3 digits, '.', exactly 2 digits, nothing else *)
Grammar(f) ==
    \E neg \in 0..1, nint \in 1..3 :
        /\ Len(f) = neg + nint + 3
        /\ neg = 1 => f[1] = MINUS
        /\ \A k \in (neg + 1)..(neg + nint) : IsDigit(f[k])
        /\ f[neg + nint + 1] = DOT
        /\ IsDigit(f[neg + nint + 2])
        /\ IsDigit(f[neg + nint + 3])

RECURSIVE DigitsValue(_)
DigitsValue(ds) ==
    IF ds = <<>> THEN 0
    ELSE DigitsValue(SubSeq(ds, 1, Len(ds) - 1)) * 10 + (ds[Len(ds)] - 48)

(* the value of a field of the grammar, in hundredths *)
GrammarValue(f) ==
    LET neg == f[1] = MINUS
        body == IF neg THEN Tail(f) ELSE f
        n == Len(body)
        mag == DigitsValue(SubSeq(body, 1, n - 3)) * 100
               + DigitsValue(SubSeq(body, n - 1, n))
    IN  IF neg THEN -mag ELSE mag

(* the lines of a text: split at '\n', the last line may lack its terminator *)
RECURSIVE Split(_)
Split(s) ==
    IF s = <<>> THEN <<>>
    ELSE LET K == {k \in 1..Len(s) : s[k] = NL}
         IN  IF K = {} THEN <<s>>
             ELSE LET k == CHOOSE x \in K : \A y \in K : x <= y
                  IN  <<SubSeq(s, 1, k - 1)>> \o Split(SubSeq(s, k + 1, Len(s)))

FirstSemi(l) == CHOOSE k \in 1..Len(l) : l[k] = SEMI /\ \A j \in 1..(k - 1) : l[j] # SEMI

KeyOf(l) == SubSeq(l, 1, FirstSemi(l) - 1)

FieldOf(l) == SubSeq(l, FirstSemi(l) + 1, Len(l))

WellFormedLine(l) == HasByte(l, SEMI) /\ Grammar(FieldOf(l))

WellFormedFile(d) ==
    /\ d # <<>>
    /\ \A k \in 1..Len(Split(d)) : WellFormedLine(Split(d)[k])

(* the value fields of d's lines that do not match the grammar *)
MalformedValues(d) ==
    { FieldOf(Split(d)[k]) :
        k \in {j \in 1..Len(Split(d)) :
                 HasByte(Split(d)[j], SEMI) /\ ~Grammar(FieldOf(Split(d)[j]))} }

RECURSIVE SumValues(_, _)
SumValues(ls, k) ==
    IF ls = <<>> THEN 0
    ELSE (IF KeyOf(ls[1]) = k THEN GrammarValue(FieldOf(ls[1])) ELSE 0)
         + SumValues(Tail(ls), k)

(* count, min, max and sum per key of well-formed lines *)
RefStats(ls) ==
    [k \in {KeyOf(ls[i]) : i \in 1..Len(ls)} |->
        LET idx == {i \in 1..Len(ls) : KeyOf(ls[i]) = k}
            vals == {GrammarValue(FieldOf(ls[i])) : i \in idx}
        IN  [Min |-> CHOOSE v \in vals : \A u \in vals : v <= u,
             Max |-> CHOOSE v \in vals : \A u \in vals : v >= u,
             Sum |-> SumValues(ls, k),
             Count |-> Cardinality(idx)]]

RECURSIVE SumOver(_, _, _, _)
SumOver(rs, i, k, field) ==
    IF i > Len(rs) THEN 0
    ELSE (IF k \in DOMAIN rs[i].m THEN rs[i].m[k][field] ELSE 0)
         + SumOver(rs, i + 1, k, field)

Succeeded == pc = "done" /\ ret = NilErr /\ stdout # <<>>

---------------------------------------------------------------------------
(* Properties *)

(* C1: for a well-formed file every worker count yields the same FinalMapping *)
(* (keys, count, min, max, sum) and the same output as the run that finished  *)
C1_SameForEveryWorkerCount ==
    (Succeeded /\ WellFormedFile(data)) =>
        \A n \in 1..MaxWorkers :
            /\ ~FinalOf(data, n).failed
            /\ FinalOf(data, n).stats = finalStats
            /\ <<printResults(FinalOf(data, n).stats)>> = stdout

(* C2: calculateChunks returns numWorkers chunks that start at 0, are contiguous, *)
(* have start <= end, end at the file size, and whose internal boundaries follow  *)
(* a '\n'                                                                          *)
C2_ChunksPartitionAtLineEnds ==
    pc = "spawn" =>
        LET S == Len(data)
        IN  /\ Len(chunks) = numWorkers
            /\ chunks[1][1] = 0
            /\ \A i \in 2..numWorkers : chunks[i][1] = chunks[i - 1][2]
            /\ \A i \in 1..numWorkers : chunks[i][1] <= chunks[i][2]
            /\ chunks[numWorkers][2] = S
            /\ \A i \in 1..numWorkers : \A b \in {chunks[i][1], chunks[i][2]} :
                    (0 < b /\ b < S) => data[b] = NL

C2_Witness ==
    /\ pc = "spawn"
    /\ numWorkers >= 3
    /\ \E i \in 1..(numWorkers - 1) :
          /\ 0 < chunks[i][2] /\ chunks[i][2] < Len(data)
          /\ chunks[i][2] > chunks[i][1] + (Len(data) \div numWorkers)
    /\ \E i \in 1..numWorkers : chunks[i][1] = chunks[i][2]

(* C3: a value field outside the grammar makes the run fail with an error that *)
(* holds the raw text of such a field, and nothing reaches stdout               *)
C3_MalformedValueAborts ==
    (pc = "done" /\ fileState = "present" /\ MalformedValues(data) # {}) =>
        /\ ret.kind = "malformed"
        /\ ret.text \in MalformedValues(data)
        /\ stdout = <<>>

(* C4: parseTemp succeeds exactly on the fields of the grammar *)
C4_AcceptsExactlyGrammar ==
    out.done => (out.ok <=> Grammar(arg))

(* C5: while a task scans a line-aligned chunk of well-formed lines, its    *)
(* LocalMapping is, after every line, the count/min/max/sum per key of the   *)
(* lines scanned so far, with count >= 1 and min <= max; the task does not   *)
(* fail, and once finished it has scanned the whole chunk and returned that  *)
(* mapping                                                                    *)
WellFormedChunk(w) ==
    LET ls == Split(Slice(data, chunks[w][1], chunks[w][2]))
    IN  \A k \in 1..Len(ls) : WellFormedLine(ls[k])

C5_LocalMappingMatchesLines ==
    \A w \in Tasks : (wstate[w] # "idle" /\ WellFormedChunk(w)) =>
        /\ lstats[w] = RefStats(Split(Slice(data, chunks[w][1], wpos[w])))
        /\ \A k \in DOMAIN lstats[w] :
              lstats[w][k].Count >= 1 /\ lstats[w][k].Min <= lstats[w][k].Max
        /\ wstate[w] # "failed"
        /\ wstate[w] = "done" =>
              /\ wpos[w] = chunks[w][2]
              /\ results[w] = [set |-> TRUE, m |-> lstats[w]]

C5_Witness ==
    \E w \in Tasks :
        /\ wstate[w] = "done"
        /\ WellFormedChunk(w)
        /\ \E k \in DOMAIN lstats[w] :
              lstats[w][k].Count >= 2 /\ lstats[w][k].Min < lstats[w][k].Max
        /\ Cardinality(DOMAIN lstats[w]) >= 2

(* C6: for a missing file MustRun returns the "does not exist" error, plans no *)
(* chunk, starts no task, merges nothing and writes nothing to stdout           *)
C6_MissingFileFails ==
    fileState = "missing" =>
        /\ pc = "done" => ret.kind = "notexist"
        /\ pc \in {"banner", "stat", "done"}
        /\ chunks = <<>> /\ results = <<>>
        /\ spawned = 0 /\ \A w \in Tasks : wstate[w] = "idle"
        /\ mergeIdx = 0 /\ finalStats = EmptyMap
        /\ stdout = <<>>

C6_Witness == fileState = "missing" /\ pc = "done" /\ ret.kind = "notexist"

(* C7: after the merge loop every key of a LocalMapping has, in FinalMapping, *)
(* the summed count and sum and the least min and greatest max of its entries *)
C7_MergeCombines ==
    (pc = "merge" /\ mergeIdx = numWorkers) =>
        \A w \in Tasks : \A k \in DOMAIN results[w].m :
            /\ k \in DOMAIN finalStats
            /\ finalStats[k].Count = SumOver(results, 1, k, "Count")
            /\ finalStats[k].Sum = SumOver(results, 1, k, "Sum")
            /\ \A u \in Tasks : k \in DOMAIN results[u].m =>
                  /\ finalStats[k].Min <= results[u].m[k].Min
                  /\ finalStats[k].Max >= results[u].m[k].Max
            /\ \E u \in Tasks : k \in DOMAIN results[u].m
                                /\ finalStats[k].Min = results[u].m[k].Min
            /\ \E u \in Tasks : k \in DOMAIN results[u].m
                                /\ finalStats[k].Max = results[u].m[k].Max

(* C8: a task whose remaining bytes hold no ';' stops at once without error: *)
(* it returns the rows it had, unchanged, and the remaining bytes add none   *)
C8_NoDelimiterStops ==
    [][\A w \in Tasks :
         ( /\ wstate[w] = "running"
           /\ wpos[w] < chunks[w][2]
           /\ ~HasByte(Slice(data, wpos[w], chunks[w][2]), SEMI)
           /\ <<wstate[w], wpos[w], lstats[w]>>' # <<wstate[w], wpos[w], lstats[w]>> )
         => /\ wstate'[w] = "done"
            /\ wpos'[w] = wpos[w]
            /\ lstats'[w] = lstats[w]
            /\ results'[w] = [set |-> TRUE, m |-> lstats[w]]
            /\ errgErr' = errgErr]_vars

C8_Witness ==
    \E w \in Tasks :
        /\ wstate[w] = "done"
        /\ wpos[w] < chunks[w][2]
        /\ DOMAIN lstats[w] # {}
        /\ results[w].m = lstats[w]

(* C9: a task writes only the slot of its own index and its own LocalMapping, *)
(* no object has two writers, and the merge runs only after every task ended  *)
C9_TasksShareNothing ==
    /\ \A x \in writes : x[2][2] = x[1]
    /\ \A x, y \in writes : x[2] = y[2] => x[1] = y[1]
    /\ (pc = "merge" \/ Succeeded) =>
          /\ spawned = numWorkers
          /\ \A w \in Tasks : wstate[w] = "done" /\ <<w, <<"slot", w>>>> \in writes

C9_Witness ==
    /\ pc = "merge"
    /\ numWorkers >= 3
    /\ \A w \in Tasks : <<w, <<"stats", w>>>> \in writes

(* C10: readNameUntilSemicolon returns what a linear scan returns: the bytes *)
(* before the first ';', or the whole input when there is none               *)
C10_SameAsLinearScan ==
    out.done =>
        /\ out.name = (IF HasByte(arg, SEMI) THEN KeyOf(arg) ELSE arg)
        /\ (Len(out.name) = Len(arg)) <=> ~HasByte(arg, SEMI)

C10_Witness ==
    /\ out.done
    /\ Len(arg) = 16
    /\ HasByte(arg, SEMI)
    /\ Len(out.name) = 15

====
